---- MODULE Spec2Model ----
(***************************************************************************)
(* Verification model of the editor-tool code: the command-pattern         *)
(* undo/redo (Command, AddObjectCommand, CommandManager), the              *)
(* canvasReducer, the ErrorBoundary, the 'object:modified' listener        *)
(* effect, the lazy initializeCanvas and debouncedUpdateText, all as       *)
(* written in IMPROVEMENTS_COMPREHENSIVE.md.                               *)
(*                                                                         *)
(* Each subsystem has its own specification over the shared variable       *)
(* tuple; a specification leaves the other subsystems' variables at their  *)
(* initial values.                                                         *)
(***************************************************************************)
EXTENDS Integers, Sequences, FiniteSets, TLC

VARIABLES
    history,        \* CommandManager.history: the commands, oldest first
    currentIndex,   \* CommandManager.currentIndex, 0-based as in the code, -1 when empty
    canvas,         \* the canvas the commands are bound to: its objects, bottom first
    constructed,    \* outcome of the last `new AddObjectCommand(canvas, object)`
    cmTrace,        \* the CommandManager calls made so far, each with the state it started from
    rState,         \* canvasReducer state: [history, current]
    rTrace,         \* the actions dispatched to canvasReducer, each with the state before it
    ebMounted,      \* ErrorBoundary: an instance is mounted
    ebInstance,     \* ErrorBoundary: number of the current instance
    hasError,       \* ErrorBoundary: this.state.hasError
    rendered,       \* ErrorBoundary: what the last render() returned
    ebChildren,     \* ErrorBoundary: this.props.children
    ebLog,          \* ErrorBoundary: errors reported by componentDidCatch
    lsMounted,      \* listener effect: the component is mounted
    lsListeners,    \* listener effect: handlers registered on canvas for 'object:modified'
    lsHandler,      \* listener effect: the handler captured by the pending cleanup
    lsNext,         \* listener effect: number of handler closures created so far
    lsCalls,        \* listener effect: handlers run by 'object:modified' events, in order
    lsDisposed,     \* listener effect: canvas.dispose() calls so far
    canvasRefs,     \* initializeCanvas: canvasRefs[view].current
    created,        \* initializeCanvas: canvases created per view
    accessed,       \* initializeCanvas: views initializeCanvas was called for
    vwLast,         \* initializeCanvas: the last call, with the state before it
    dbTimers,       \* debounce: the pending timers, each [left (ms), args]
    dbQuiet,        \* debounce: ms since the latest input (capped at the wait)
    dbCalls,        \* debounce: updateTextToCanvas invocations, each [text, quiet]
    dbInputs,       \* debounce: the text inputs so far, each [text, gap]
    dbBursts        \* debounce: number of bursts started

cmVars == <<history, currentIndex, canvas, constructed, cmTrace>>
rVars  == <<rState, rTrace>>
ebVars == <<ebMounted, ebInstance, hasError, rendered, ebChildren, ebLog>>
lsVars == <<lsMounted, lsListeners, lsHandler, lsNext, lsCalls, lsDisposed>>
vwVars == <<canvasRefs, created, accessed, vwLast>>
dbVars == <<dbTimers, dbQuiet, dbCalls, dbInputs, dbBursts>>
vars   == <<cmVars, rVars, ebVars, lsVars, vwVars, dbVars>>

\* what a subsystem's operations leave alone
CMFrame == UNCHANGED <<rVars, ebVars, lsVars, vwVars, dbVars>>
RFrame == UNCHANGED <<cmVars, ebVars, lsVars, vwVars, dbVars>>
EBFrame == UNCHANGED <<cmVars, rVars, lsVars, vwVars, dbVars>>
LsFrame == UNCHANGED <<cmVars, rVars, ebVars, vwVars, dbVars>>
VwFrame == UNCHANGED <<cmVars, rVars, ebVars, lsVars, dbVars>>
DbFrame == UNCHANGED <<cmVars, rVars, ebVars, lsVars, vwVars>>

----------------------------------------------------------------------------
(* Bounds of the model *)

MaxSteps == 5          \* CommandManager calls per behaviour
MaxDispatch == 5       \* canvasReducer dispatches per behaviour
MaxInstances == 3      \* ErrorBoundary instances mounted per behaviour
MaxMounts == 4         \* mounts of the component holding the listener effect
MaxEvents == 3         \* handler runs recorded for 'object:modified'
MaxCanvases == 6       \* canvas instances created per behaviour
MaxInputs == 4         \* text inputs per behaviour
MaxRaiseSteps == 4     \* CommandManager calls per behaviour when commands may raise

Objects == {"o1", "o2", "o3"}   \* canvas objects handed to commands
Payloads == {"p1", "p2"}        \* ADD_OBJECT payloads
Children == {"childA", "childB"}   \* values of the boundary's props.children
Errors == {"e1", "e2"}          \* errors a child can raise
Texts == {"t1", "t2"}           \* text inputs
Delays == {100, 200}            \* ms that pass between two events

----------------------------------------------------------------------------
(* Sequence helpers (JavaScript array operations) *)

\* Array.prototype.slice(0, end) for 0 <= end
Slice0(arr, end) == SubSeq(arr, 1, IF end < Len(arr) THEN end ELSE Len(arr))

\* index of the first occurrence of x in arr (1-based), 0 when absent
IndexOf(arr, x) ==
    IF \E i \in 1..Len(arr) : arr[i] = x
    THEN CHOOSE i \in 1..Len(arr) : arr[i] = x /\ \A j \in 1..(i - 1) : arr[j] # x
    ELSE 0

Last(arr) == arr[Len(arr)]

----------------------------------------------------------------------------
(* Canvas (the objects array behind canvas.add / canvas.remove) *)

\* canvas.add(object): the object is pushed on top
canvas_add(cv, object) == Append(cv, object)

\* canvas.remove(object): the first occurrence is spliced out, none if absent
canvas_remove(cv, object) ==
    LET i == IndexOf(cv, object)
    IN IF i = 0 THEN cv ELSE SubSeq(cv, 1, i - 1) \o SubSeq(cv, i + 1, Len(cv))

----------------------------------------------------------------------------
(* Command / AddObjectCommand *)

TheCanvas == "canvas"
NoCommand == [canvas |-> "none", object |-> "none"]
\* the commands CommandManager is driven with: objects carrying
\* AddObjectCommand's fields and its execute()/undo() methods
Commands == [canvas : {TheCanvas}, object : Objects]

\* new AddObjectCommand(canvas, object).  The class extends Command and its
\* constructor assigns to `this` without calling super(): in a derived class
\* `this` is unbound until super() returns, so the first assignment raises
\* ReferenceError and no instance is produced.
AddObjectCommand_constructor(cv, object) ==
    LET isDerived == TRUE          \* class AddObjectCommand extends Command
        superCalled == FALSE       \* the constructor body holds no super(...) call
        thisBound == (~isDerived) \/ superCalled
    IN IF thisBound
       THEN [status |-> "returned", error |-> "none",
             command |-> [canvas |-> cv, object |-> object]]
       ELSE [status |-> "threw", error |-> "ReferenceError", command |-> NoCommand]

\* AddObjectCommand.execute(): this.canvas.add(this.object)
AddObjectCommand_execute(command, cv) == canvas_add(cv, command.object)

\* AddObjectCommand.undo(): this.canvas.remove(this.object)
AddObjectCommand_undo(command, cv) == canvas_remove(cv, command.object)

----------------------------------------------------------------------------
(* CommandManager *)

CMState == [history |-> history, currentIndex |-> currentIndex, canvas |-> canvas]

CMLog(op, arg, invoked) ==
    cmTrace' = Append(cmTrace, [op |-> op, arg |-> arg, before |-> CMState,
                                invoked |-> invoked])

\* the caller evaluates `new AddObjectCommand(canvas, object)`
Construct(object) ==
    /\ constructed' = [canvas |-> TheCanvas, object |-> object,
                       result |-> AddObjectCommand_constructor(TheCanvas, object)]
    /\ UNCHANGED <<history, currentIndex, canvas, cmTrace>>
    /\ CMFrame

CM_execute_keepsUndone(command) ==
    /\ Len(cmTrace) < MaxSteps
    /\ canvas' = AddObjectCommand_execute(command, canvas)
    /\ history' = Append(history, command)
    /\ currentIndex' = currentIndex + 1
    /\ CMLog("execute", command, <<<<"execute", command>>>>)
    /\ UNCHANGED constructed
    /\ CMFrame

\* CommandManager.execute(command)
CM_execute(command) ==
    /\ Len(cmTrace) < MaxSteps
    /\ canvas' = AddObjectCommand_execute(command, canvas)
    /\ history' = Append(Slice0(history, currentIndex + 1), command)
    /\ currentIndex' = currentIndex + 1
    /\ CMLog("execute", command, <<<<"execute", command>>>>)
    /\ UNCHANGED constructed
    /\ CMFrame

CM_undo_decrementsAlways ==
    /\ Len(cmTrace) < MaxSteps
    /\ IF currentIndex >= 0
       THEN /\ canvas' = AddObjectCommand_undo(history[currentIndex + 1], canvas)
            /\ CMLog("undo", NoCommand, <<<<"undo", history[currentIndex + 1]>>>>)
       ELSE /\ canvas' = canvas
            /\ CMLog("undo", NoCommand, <<>>)
    /\ currentIndex' = currentIndex - 1
    /\ UNCHANGED <<history, constructed>>
    /\ CMFrame

CM_undo_skipsCommandUndo ==
    /\ Len(cmTrace) < MaxSteps
    /\ IF currentIndex >= 0
       THEN /\ canvas' = canvas
            /\ currentIndex' = currentIndex - 1
            /\ CMLog("undo", NoCommand, <<>>)
       ELSE /\ UNCHANGED <<canvas, currentIndex>>
            /\ CMLog("undo", NoCommand, <<>>)
    /\ UNCHANGED <<history, constructed>>
    /\ CMFrame

\* CommandManager.undo()
CM_undo ==
    /\ Len(cmTrace) < MaxSteps
    /\ IF currentIndex >= 0
       THEN /\ canvas' = AddObjectCommand_undo(history[currentIndex + 1], canvas)
            /\ currentIndex' = currentIndex - 1
            /\ CMLog("undo", NoCommand, <<<<"undo", history[currentIndex + 1]>>>>)
       ELSE /\ UNCHANGED <<canvas, currentIndex>>
            /\ CMLog("undo", NoCommand, <<>>)
    /\ UNCHANGED <<history, constructed>>
    /\ CMFrame

CM_redo_skipsExecute ==
    /\ Len(cmTrace) < MaxSteps
    /\ IF currentIndex < Len(history) - 1
       THEN /\ currentIndex' = currentIndex + 1
            /\ canvas' = canvas
            /\ CMLog("redo", NoCommand, <<>>)
       ELSE /\ UNCHANGED <<canvas, currentIndex>>
            /\ CMLog("redo", NoCommand, <<>>)
    /\ UNCHANGED <<history, constructed>>
    /\ CMFrame

CM_redo_offByOne ==
    /\ Len(cmTrace) < MaxSteps
    /\ IF currentIndex <= Len(history) - 1
       THEN /\ currentIndex' = currentIndex + 1
            /\ IF currentIndex + 2 <= Len(history)
               THEN /\ canvas' = AddObjectCommand_execute(history[currentIndex + 2], canvas)
                    /\ CMLog("redo", NoCommand,
                             <<<<"execute", history[currentIndex + 2]>>>>)
               ELSE /\ canvas' = canvas
                    /\ CMLog("redo", NoCommand, <<>>)
       ELSE /\ UNCHANGED <<canvas, currentIndex>>
            /\ CMLog("redo", NoCommand, <<>>)
    /\ UNCHANGED <<history, constructed>>
    /\ CMFrame

\* CommandManager.redo()
CM_redo ==
    /\ Len(cmTrace) < MaxSteps
    /\ IF currentIndex < Len(history) - 1
       THEN /\ currentIndex' = currentIndex + 1
            /\ canvas' = AddObjectCommand_execute(history[currentIndex + 2], canvas)
            /\ CMLog("redo", NoCommand, <<<<"execute", history[currentIndex + 2]>>>>)
       ELSE /\ UNCHANGED <<canvas, currentIndex>>
            /\ CMLog("redo", NoCommand, <<>>)
    /\ UNCHANGED <<history, constructed>>
    /\ CMFrame

\* new CommandManager(), a fresh empty canvas, nothing constructed yet
CMInit ==
    /\ history = <<>>
    /\ currentIndex = -1
    /\ canvas = <<>>
    /\ constructed = [canvas |-> "none", object |-> "none",
                      result |-> [status |-> "notCalled", error |-> "none",
                                  command |-> NoCommand]]
    /\ cmTrace = <<>>

CMNext ==
    \/ \E object \in Objects : Construct(object)
    \/ \E command \in Commands : CM_execute(command)
    \/ CM_undo
    \/ CM_redo

----------------------------------------------------------------------------
(* CommandManager driven with commands whose execute() or undo() may raise. *)
(* `raises` is the outcome of the one command method the call invokes; a    *)
(* method that raises leaves the canvas as it was, and the raise ends the   *)
(* manager's method at that statement.                                      *)

CMRLog(op, arg, invoked, threw) ==
    cmTrace' = Append(cmTrace, [op |-> op, arg |-> arg, before |-> CMState,
                                invoked |-> invoked, threw |-> threw])

\* CommandManager.execute(command): command.execute() comes first, so a raise
\* leaves history and currentIndex untouched
CMR_execute(command, raises) ==
    /\ Len(cmTrace) < MaxRaiseSteps
    /\ IF raises
       THEN UNCHANGED <<canvas, history, currentIndex>>
       ELSE /\ canvas' = AddObjectCommand_execute(command, canvas)
            /\ history' = Append(Slice0(history, currentIndex + 1), command)
            /\ currentIndex' = currentIndex + 1
    /\ CMRLog("execute", command, <<<<"execute", command>>>>, raises)
    /\ UNCHANGED constructed
    /\ CMFrame

\* CommandManager.undo(): the command's undo() comes before currentIndex--
CMR_undo(raises) ==
    /\ Len(cmTrace) < MaxRaiseSteps
    /\ IF currentIndex >= 0
       THEN /\ IF raises
               THEN UNCHANGED <<canvas, currentIndex>>
               ELSE /\ canvas' = AddObjectCommand_undo(history[currentIndex + 1], canvas)
                    /\ currentIndex' = currentIndex - 1
            /\ CMRLog("undo", NoCommand, <<<<"undo", history[currentIndex + 1]>>>>, raises)
       ELSE /\ UNCHANGED <<canvas, currentIndex>>
            /\ CMRLog("undo", NoCommand, <<>>, FALSE)
    /\ UNCHANGED <<history, constructed>>
    /\ CMFrame

\* CommandManager.redo(): currentIndex++ comes before the command's execute()
CMR_redo(raises) ==
    /\ Len(cmTrace) < MaxRaiseSteps
    /\ IF currentIndex < Len(history) - 1
       THEN /\ currentIndex' = currentIndex + 1
            /\ canvas' = IF raises THEN canvas
                         ELSE AddObjectCommand_execute(history[currentIndex + 2], canvas)
            /\ CMRLog("redo", NoCommand, <<<<"execute", history[currentIndex + 2]>>>>, raises)
       ELSE /\ UNCHANGED <<canvas, currentIndex>>
            /\ CMRLog("redo", NoCommand, <<>>, FALSE)
    /\ UNCHANGED <<history, constructed>>
    /\ CMFrame

CMRNext ==
    \/ \E command \in Commands, raises \in BOOLEAN : CMR_execute(command, raises)
    \/ \E raises \in BOOLEAN : CMR_undo(raises)
    \/ \E raises \in BOOLEAN : CMR_redo(raises)

----------------------------------------------------------------------------
(* canvasReducer *)

\* a canvas state held in `current` or `history`; Undefined is JavaScript's
\* undefined (an out-of-range array read)
Undefined == [defined |-> FALSE, objects |-> <<>>]
CanvasValue(objects) == [defined |-> TRUE, objects |-> objects]

\* addObject(current, payload): the possible outcomes.  On a canvas state the
\* payload is appended; on undefined the helper either raises or starts from
\* an empty state.
addObject(current, payload) ==
    IF current.defined
    THEN {[threw |-> FALSE, value |-> CanvasValue(Append(current.objects, payload))]}
    ELSE {[threw |-> TRUE, value |-> Undefined],
          [threw |-> FALSE, value |-> CanvasValue(<<payload>>)]}

\* state.history[state.history.length - 1]
HistoryTop(state) ==
    IF Len(state.history) = 0 THEN Undefined ELSE state.history[Len(state.history)]

canvasReducer_pushesResult(state, action, added) ==
    IF action.type = "ADD_OBJECT"
    THEN [history |-> Append(state.history, added), current |-> added]
    ELSE [history |-> Append(state.history, state.current),
          current |-> HistoryTop(state)]

\* canvasReducer(state, action); `added` is what addObject(state.current,
\* action.payload) returned
canvasReducer(state, action, added) ==
    IF action.type = "ADD_OBJECT"
    THEN [history |-> Append(state.history, state.current), current |-> added]
    ELSE [history |-> Append(state.history, state.current),
          current |-> HistoryTop(state)]

RLog(type, payload, threw) ==
    rTrace' = Append(rTrace, [type |-> type, payload |-> payload,
                              before |-> rState, threw |-> threw])

\* dispatch({type: 'ADD_OBJECT', payload}): a raise inside the reducer leaves
\* the state as it was
DispatchAddObject(payload) ==
    /\ Len(rTrace) < MaxDispatch
    /\ \E r \in addObject(rState.current, payload) :
          /\ rState' = IF r.threw THEN rState
                       ELSE canvasReducer(rState, [type |-> "ADD_OBJECT",
                                                   payload |-> payload], r.value)
          /\ RLog("ADD_OBJECT", payload, r.threw)
    /\ RFrame

\* dispatch({type: 'UNDO'})
DispatchUndo ==
    /\ Len(rTrace) < MaxDispatch
    /\ rState' = canvasReducer(rState, [type |-> "UNDO", payload |-> "none"], Undefined)
    /\ RLog("UNDO", "none", FALSE)
    /\ RFrame

\* useReducer(canvasReducer, initial): no past states, an empty canvas state
RInit ==
    /\ rState = [history |-> <<>>, current |-> CanvasValue(<<>>)]
    /\ rTrace = <<>>

RNext ==
    \/ \E payload \in Payloads : DispatchAddObject(payload)
    \/ DispatchUndo

----------------------------------------------------------------------------
(* ErrorBoundary *)

Fallback == "ErrorFallback"
Nothing == "nothing"

\* static getDerivedStateFromError(error)
getDerivedStateFromError(error) == [hasError |-> TRUE]

\* render()
ErrorBoundary_render(stateHasError, children) ==
    IF stateHasError THEN Fallback ELSE children

\* a new instance is mounted: constructor(props), then render()
EBMount(children) ==
    /\ ~ebMounted
    /\ ebInstance < MaxInstances
    /\ ebMounted' = TRUE
    /\ ebInstance' = ebInstance + 1
    /\ hasError' = FALSE
    /\ ebChildren' = children
    /\ rendered' = ErrorBoundary_render(hasError', children)
    /\ UNCHANGED ebLog
    /\ EBFrame

EBRender_resetsOnNewChildren(children) ==
    /\ ebMounted
    /\ ebChildren' = children
    /\ hasError' = IF children # ebChildren THEN FALSE ELSE hasError
    /\ rendered' = ErrorBoundary_render(hasError', children)
    /\ UNCHANGED <<ebMounted, ebInstance, ebLog>>
    /\ EBFrame

\* the parent re-renders the boundary with (possibly new) children: render()
EBRender(children) ==
    /\ ebMounted
    /\ ebChildren' = children
    /\ rendered' = ErrorBoundary_render(hasError, children)
    /\ UNCHANGED <<ebMounted, ebInstance, hasError, ebLog>>
    /\ EBFrame

\* a rendered child raises: getDerivedStateFromError, the re-render with the
\* new state, then componentDidCatch
EBChildThrows(error) ==
    /\ ebMounted
    /\ rendered = ebChildren
    /\ hasError' = getDerivedStateFromError(error).hasError
    /\ rendered' = ErrorBoundary_render(hasError', ebChildren)
    /\ ebLog' = Append(ebLog, [instance |-> ebInstance, error |-> error,
                               children |-> ebChildren])
    /\ UNCHANGED <<ebMounted, ebInstance, ebChildren>>
    /\ EBFrame

\* the instance is unmounted
EBUnmount ==
    /\ ebMounted
    /\ ebMounted' = FALSE
    /\ rendered' = Nothing
    /\ UNCHANGED <<ebInstance, hasError, ebChildren, ebLog>>
    /\ EBFrame

EBInit ==
    /\ ebMounted = FALSE
    /\ ebInstance = 0
    /\ hasError = FALSE
    /\ rendered = Nothing
    /\ ebChildren = "childA"
    /\ ebLog = <<>>

EBNext ==
    \/ \E children \in Children : EBMount(children)
    \/ \E children \in Children : EBRender(children)
    \/ \E error \in Errors : EBChildThrows(error)
    \/ EBUnmount

----------------------------------------------------------------------------
(* The 'object:modified' listener effect *)

NoHandler == 0

\* canvas.on('object:modified', handler)
canvas_on(listeners, handler) == Append(listeners, handler)

\* canvas.off('object:modified', handler): that handler is removed
canvas_off(listeners, handler) == SelectSeq(listeners, LAMBDA h : h # handler)

\* mount: the effect body runs: a new handler closure is created and registered
LsMount ==
    /\ ~lsMounted
    /\ lsNext < MaxMounts
    /\ lsMounted' = TRUE
    /\ lsNext' = lsNext + 1
    /\ lsHandler' = lsNext + 1
    /\ lsListeners' = canvas_on(lsListeners, lsNext + 1)
    /\ UNCHANGED <<lsCalls, lsDisposed>>
    /\ LsFrame

LsUnmount_offNewFunction ==
    /\ lsMounted
    /\ lsMounted' = FALSE
    /\ lsListeners' = canvas_off(lsListeners, NoHandler)
    /\ lsHandler' = NoHandler
    /\ lsDisposed' = lsDisposed + 1
    /\ UNCHANGED <<lsNext, lsCalls>>
    /\ LsFrame

\* unmount: the effects' cleanups run: canvas.off with the captured handler,
\* then canvas.dispose()
LsUnmount ==
    /\ lsMounted
    /\ lsMounted' = FALSE
    /\ lsListeners' = canvas_off(lsListeners, lsHandler)
    /\ lsHandler' = NoHandler
    /\ lsDisposed' = lsDisposed + 1
    /\ UNCHANGED <<lsNext, lsCalls>>
    /\ LsFrame

\* the canvas fires 'object:modified': every registered handler runs
LsFire ==
    /\ Len(lsCalls) + Len(lsListeners) <= MaxEvents
    /\ lsCalls' = lsCalls \o lsListeners
    /\ UNCHANGED <<lsMounted, lsListeners, lsHandler, lsNext, lsDisposed>>
    /\ LsFrame

LsInit ==
    /\ lsMounted = FALSE
    /\ lsListeners = <<>>
    /\ lsHandler = NoHandler
    /\ lsNext = 0
    /\ lsCalls = <<>>
    /\ lsDisposed = 0

LsNext ==
    \/ LsMount
    \/ LsUnmount
    \/ LsFire

----------------------------------------------------------------------------
(* initializeCanvas *)

Views == {"front", "back", "left", "right"}
NoCanvas == 0
NoView == "none"

TotalCreated == created["front"] + created["back"] + created["left"] + created["right"]

initializeCanvas_always(view) ==
    /\ TotalCreated < MaxCanvases
    /\ canvasRefs' = [canvasRefs EXCEPT ![view] = TotalCreated + 1]
    /\ created' = [created EXCEPT ![view] = @ + 1]
    /\ accessed' = accessed \cup {view}
    /\ vwLast' = [view |-> view, refs |-> canvasRefs, created |-> created]
    /\ VwFrame

\* initializeCanvas(view): the guarded body creates the view's canvas and
\* stores it in canvasRefs[view].current
initializeCanvas(view) ==
    /\ TotalCreated < MaxCanvases
    /\ IF canvasRefs[view] = NoCanvas
       THEN /\ canvasRefs' = [canvasRefs EXCEPT ![view] = TotalCreated + 1]
            /\ created' = [created EXCEPT ![view] = @ + 1]
       ELSE UNCHANGED <<canvasRefs, created>>
    /\ accessed' = accessed \cup {view}
    /\ vwLast' = [view |-> view, refs |-> canvasRefs, created |-> created]
    /\ VwFrame

VwInit ==
    /\ canvasRefs = [v \in Views |-> NoCanvas]
    /\ created = [v \in Views |-> 0]
    /\ accessed = {}
    /\ vwLast = [view |-> NoView, refs |-> [v \in Views |-> NoCanvas],
                 created |-> [v \in Views |-> 0]]

VwNext == \E view \in Views : initializeCanvas(view)

----------------------------------------------------------------------------
(* debouncedUpdateText *)

WaitMs == 300

Min(a, b) == IF a < b THEN a ELSE b

\* a timer that has reached its deadline runs before any later input is
\* handled
TimerDue == \E t \in dbTimers : t.left = 0

DbLogInput(text) ==
    /\ dbInputs' = Append(dbInputs, [text |-> text, gap |-> dbQuiet])
    /\ dbBursts' = IF dbInputs = <<>> \/ dbQuiet >= WaitMs THEN dbBursts + 1 ELSE dbBursts
    /\ dbQuiet' = 0

debouncedUpdateText_perRender(text) ==
    /\ Len(dbInputs) < MaxInputs
    /\ ~TimerDue
    /\ dbTimers' = dbTimers \cup {[left |-> WaitMs, args |-> text]}
    /\ DbLogInput(text)
    /\ UNCHANGED dbCalls
    /\ DbFrame

\* debouncedUpdateText(text): the one memoized debounce instance drops its
\* pending timer and starts a new one of WaitMs with the new argument
debouncedUpdateText(text) ==
    /\ Len(dbInputs) < MaxInputs
    /\ ~TimerDue
    /\ dbTimers' = {[left |-> WaitMs, args |-> text]}
    /\ DbLogInput(text)
    /\ UNCHANGED dbCalls
    /\ DbFrame

\* d ms pass without an input; no timer's deadline is passed over
DbTick(d) ==
    /\ \A t \in dbTimers : d <= t.left
    /\ dbTimers' = {[left |-> t.left - d, args |-> t.args] : t \in dbTimers}
    /\ dbQuiet' = Min(dbQuiet + d, WaitMs)
    /\ UNCHANGED <<dbCalls, dbInputs, dbBursts>>
    /\ DbFrame

\* a timer expires: the debounced function runs, await updateTextToCanvas(text)
DbTimerFires ==
    /\ \E t \in dbTimers :
        /\ t.left = 0
        /\ dbTimers' = dbTimers \ {t}
        /\ dbCalls' = Append(dbCalls, [text |-> t.args, quiet |-> dbQuiet])
    /\ UNCHANGED <<dbQuiet, dbInputs, dbBursts>>
    /\ DbFrame

DbInit ==
    /\ dbTimers = {}
    /\ dbQuiet = 0
    /\ dbCalls = <<>>
    /\ dbInputs = <<>>
    /\ dbBursts = 0

DbNext ==
    \/ \E text \in Texts : debouncedUpdateText(text)
    \/ \E d \in Delays : DbTick(d)
    \/ DbTimerFires

----------------------------------------------------------------------------
(* Specifications *)

Init == CMInit /\ RInit /\ EBInit /\ LsInit /\ VwInit /\ DbInit

Spec == Init /\ [][CMNext]_vars
SpecReducer == Init /\ [][RNext]_vars
SpecBoundary == Init /\ [][EBNext]_vars
SpecListener == Init /\ [][LsNext]_vars
SpecViews == Init /\ [][VwNext]_vars
SpecDebounce == Init /\ [][DbNext]_vars
SpecRaise == Init /\ [][CMRNext]_vars

----------------------------------------------------------------------------
(* CommandManager properties *)

CMLen == Len(cmTrace)
CMLastIs(op) == CMLen >= 1 /\ cmTrace[CMLen].op = op
CMLastTwo(op1, op2) ==
    CMLen >= 2 /\ cmTrace[CMLen - 1].op = op1 /\ cmTrace[CMLen].op = op2

\* every execute() so far was given a command over an object of its own
ExecutedDistinct ==
    \A i, j \in 1..CMLen :
        (i < j /\ cmTrace[i].op = "execute" /\ cmTrace[j].op = "execute")
            => cmTrace[i].arg.object # cmTrace[j].arg.object

\* C1 as stated: whenever currentIndex >= 0, undo() followed by redo() leaves
\* the canvas contents, history and currentIndex as they were before the undo().
C1_UndoRedoRestores ==
    (CMLastTwo("undo", "redo") /\ cmTrace[CMLen - 1].before.currentIndex >= 0)
        => CMState = cmTrace[CMLen - 1].before

\* C1 amended: when every execute() was given an AddObjectCommand over an
\* object of its own (pairwise distinct objects, canvas initially empty and
\* changed only through the manager), undo() followed by redo() from
\* currentIndex >= 0 leaves canvas, history and currentIndex as they were.
C1_UndoRedoRestoresDistinct ==
    (CMLastTwo("undo", "redo") /\ cmTrace[CMLen - 1].before.currentIndex >= 0
        /\ ExecutedDistinct)
        => CMState = cmTrace[CMLen - 1].before

C1_Witness ==
    /\ CMLastTwo("undo", "redo")
    /\ cmTrace[CMLen - 1].before.currentIndex >= 1
    /\ ExecutedDistinct
    /\ Len(canvas) >= 2
    /\ cmTrace[CMLen].invoked # <<>>

\* C2: execute(command) discards the undone commands: history becomes the old
\* history[0..currentIndex] followed by the command, currentIndex is
\* history.length - 1, and a redo() right after it changes nothing.
C2_ExecuteDiscardsUndone ==
    /\ CMLastIs("execute") =>
          LET b == cmTrace[CMLen].before
          IN /\ history = SubSeq(b.history, 1, b.currentIndex + 1)
                              \o <<cmTrace[CMLen].arg>>
             /\ currentIndex = Len(history) - 1
    /\ CMLastTwo("execute", "redo") =>
          /\ CMState = cmTrace[CMLen].before
          /\ cmTrace[CMLen].invoked = <<>>

C2_Witness ==
    /\ CMLen >= 3
    /\ cmTrace[CMLen - 2].op = "undo"
    /\ CMLastTwo("execute", "redo")
    /\ LET b == cmTrace[CMLen - 1].before
       IN b.currentIndex < Len(b.history) - 1
    /\ Len(history) >= 2

\* C3: undo() at currentIndex = -1 and redo() at currentIndex =
\* history.length - 1 invoke no command method and leave history,
\* currentIndex and the canvas unchanged.
C3_NothingToUndoOrRedo ==
    CMLen >= 1 =>
        LET e == cmTrace[CMLen]
        IN ((e.op = "undo" /\ e.before.currentIndex = -1)
              \/ (e.op = "redo" /\ e.before.currentIndex = Len(e.before.history) - 1))
           => (e.invoked = <<>> /\ CMState = e.before)

C3_Witness ==
    /\ \E i \in 1..CMLen :
          /\ cmTrace[i].op = "undo"
          /\ cmTrace[i].before.currentIndex = -1
          /\ Len(cmTrace[i].before.history) >= 1
    /\ CMLastIs("redo")
    /\ cmTrace[CMLen].before.currentIndex = Len(cmTrace[CMLen].before.history) - 1
    /\ Len(history) >= 1

\* C4: new AddObjectCommand(canvas, object) returns without raising, the
\* command is bound to that canvas and object, its execute() adds the object
\* and its undo() removes it.
C4_ConstructorReturnsCommand ==
    constructed.result.status # "notCalled" =>
        /\ constructed.result.status = "returned"
        /\ constructed.result.command =
              [canvas |-> constructed.canvas, object |-> constructed.object]
        /\ AddObjectCommand_execute(constructed.result.command, <<>>)
              = <<constructed.object>>
        /\ AddObjectCommand_undo(constructed.result.command, <<constructed.object>>)
              = <<>>

\* C12: after any sequence of execute, undo and redo calls,
\* -1 <= currentIndex <= history.length - 1; the command undo() invokes and
\* the command redo() invokes after advancing are defined entries of history.
C12_IndexInRange ==
    /\ -1 <= currentIndex
    /\ currentIndex <= Len(history) - 1
    /\ currentIndex >= 0 => history[currentIndex + 1] \in Commands
    /\ \A i \in 1..CMLen :
          LET e == cmTrace[i]
          IN /\ (e.op = "undo" /\ e.before.currentIndex >= 0) =>
                   /\ e.before.currentIndex + 1 \in DOMAIN e.before.history
                   /\ e.invoked = <<<<"undo", e.before.history[e.before.currentIndex + 1]>>>>
             /\ (e.op = "redo" /\ e.before.currentIndex < Len(e.before.history) - 1) =>
                   /\ e.before.currentIndex + 2 \in DOMAIN e.before.history
                   /\ e.invoked = <<<<"execute", e.before.history[e.before.currentIndex + 2]>>>>

C12_Witness ==
    /\ CMLen >= 4
    /\ \E i \in 1..CMLen : cmTrace[i].op = "undo" /\ cmTrace[i].invoked # <<>>
    /\ CMLastIs("redo")
    /\ cmTrace[CMLen].invoked # <<>>
    /\ currentIndex = Len(history) - 1
    /\ Len(history) >= 2

\* the objects of the commands history[from..to] (1-based positions)
HistoryObjects(from, to) == {history[i].object : i \in from..to}
CanvasObjects == {canvas[i] : i \in 1..Len(canvas)}

\* C13: with AddObjectCommands over pairwise distinct objects on an initially
\* empty canvas, after any sequence of execute, undo and redo calls the
\* canvas holds exactly the objects of history[0..currentIndex], each once,
\* and no object of a command above currentIndex.
C13_CanvasMatchesHistory ==
    ExecutedDistinct =>
        /\ CanvasObjects = HistoryObjects(1, currentIndex + 1)
        /\ Len(canvas) = currentIndex + 1
        /\ CanvasObjects \cap HistoryObjects(currentIndex + 2, Len(history)) = {}

C13_Witness ==
    /\ ExecutedDistinct
    /\ currentIndex >= 0
    /\ currentIndex < Len(history) - 1
    /\ \E i \in 1..CMLen : cmTrace[i].op = "redo" /\ cmTrace[i].invoked # <<>>
    /\ CMLastIs("undo")
    /\ cmTrace[CMLen].invoked # <<>>

\* C14: when a command's execute() or undo() raises inside
\* CommandManager.execute, undo or redo, history and currentIndex are left
\* as they were before the call.
C14_RaiseLeavesManagerUnchanged ==
    \A i \in 1..CMLen :
        cmTrace[i].threw =>
            LET after == IF i = CMLen THEN CMState ELSE cmTrace[i + 1].before
            IN /\ after.history = cmTrace[i].before.history
               /\ after.currentIndex = cmTrace[i].before.currentIndex

----------------------------------------------------------------------------
(* canvasReducer properties *)

RLen == Len(rTrace)
RReturned(i, type) == rTrace[i].type = type /\ ~rTrace[i].threw

\* C5: an ADD_OBJECT the reducer returned from, immediately followed by an
\* UNDO, returns `current` to its value before the ADD_OBJECT.
C5_AddThenUndo ==
    (RLen >= 2 /\ RReturned(RLen - 1, "ADD_OBJECT") /\ RReturned(RLen, "UNDO"))
        => rState.current = rTrace[RLen - 1].before.current

C5_Witness ==
    /\ RLen >= 2
    /\ RReturned(RLen - 1, "ADD_OBJECT")
    /\ RReturned(RLen, "UNDO")
    /\ rTrace[RLen - 1].before.current.defined
    /\ rTrace[RLen - 1].before.current.objects # <<>>
    /\ rTrace[RLen].before.current # rState.current

\* C6: for every k >= 1, k ADD_OBJECT actions followed by k UNDO actions
\* leave `current` equal to its value before the first ADD_OBJECT.
C6_KAddsKUndos ==
    \A k \in 1..RLen :
        (/\ 2 * k <= RLen
         /\ \A i \in (RLen - 2 * k + 1)..(RLen - k) : RReturned(i, "ADD_OBJECT")
         /\ \A i \in (RLen - k + 1)..RLen : RReturned(i, "UNDO"))
        => rState.current = rTrace[RLen - 2 * k + 1].before.current

\* C15: an UNDO dispatched while history is empty leaves `current`
\* unchanged and still a defined canvas state.
C15_UndoOnEmptyHistory ==
    (RLen >= 1 /\ rTrace[RLen].type = "UNDO" /\ rTrace[RLen].before.history = <<>>)
        => /\ rState.current = rTrace[RLen].before.current
           /\ rState.current.defined

----------------------------------------------------------------------------
(* ErrorBoundary properties *)

\* C7: while mounted the boundary shows its children exactly when hasError
\* is false and the ErrorFallback exactly when it is true; hasError is false
\* on mount, true once a child error is caught, and then stays true (the
\* children are not rendered again) for as long as the instance lives.
C7_BoundaryRendering ==
    /\ [](ebMounted => /\ (rendered = ebChildren) <=> ~hasError
                       /\ (rendered = Fallback) <=> hasError)
    /\ [][/\ (~ebMounted /\ ebMounted') => ~hasError'
          /\ (ebLog' # ebLog) => hasError'
          /\ (ebMounted /\ hasError /\ ebMounted')
                => (hasError' /\ rendered' = Fallback /\ rendered' # ebChildren')]_vars

C7_Witness ==
    /\ ebMounted
    /\ hasError
    /\ rendered = Fallback
    /\ ebLog # <<>>
    /\ Last(ebLog).instance = ebInstance
    /\ Last(ebLog).children # ebChildren
    /\ ebInstance >= 2

----------------------------------------------------------------------------
(* Listener effect properties *)

\* C8: the effect registers its handler on mount and removes that handler on
\* unmount: at most one handler of the effect is registered at any time, the
\* registered one is the current mount's, and none is registered while the
\* component is unmounted.
C8_ListenerCleanup ==
    /\ Len(lsListeners) <= 1
    /\ lsMounted => lsListeners = <<lsHandler>>
    /\ ~lsMounted => lsListeners = <<>>

C8_Witness ==
    /\ lsNext >= 3
    /\ lsMounted
    /\ lsListeners = <<lsNext>>
    /\ lsDisposed >= 2
    /\ lsCalls # <<>>

----------------------------------------------------------------------------
(* initializeCanvas properties *)

----------------------------------------------------------------------------
(* debouncedUpdateText properties *)

\* C10: for a burst of inputs each less than 300 ms after the previous one,
\* updateTextToCanvas is not called during the burst (every call comes 300 ms
\* after the latest input) and is called exactly once when the burst has
\* ended, with the text of the burst's last input.
C10_DebounceCoalesces ==
    /\ \A i \in 1..Len(dbCalls) : dbCalls[i].quiet >= WaitMs
    /\ Len(dbCalls) = dbBursts - (IF dbTimers = {} THEN 0 ELSE 1)
    /\ (dbTimers = {} /\ dbInputs # <<>>) =>
          Last(dbCalls).text = Last(dbInputs).text

C10_Witness ==
    /\ dbTimers = {}
    /\ Len(dbInputs) = 3
    /\ dbInputs[2].gap > 0 /\ dbInputs[2].gap < WaitMs
    /\ dbInputs[3].gap > 0 /\ dbInputs[3].gap < WaitMs
    /\ dbInputs[1].text # dbInputs[3].text
    /\ dbCalls = <<[text |-> dbInputs[3].text, quiet |-> WaitMs]>>

====
